---- MODULE Spec2Model ----
(***************************************************************************)
(* Model of the loan / inventory engine of Acervo (src/core.py, class      *)
(* Acervo; src/models.py, classes Obra, Usuario, Emprestimo).              *)
(*                                                                         *)
(* Dates are integers: the number of days since the day on which the       *)
(* modules were imported.  Python evaluates default arguments once, when   *)
(* the `def` runs, so every `= date.today()` default is the import day     *)
(* (DiaImport), while a `date.today()` inside a body is the current day    *)
(* (hoje).                                                                 *)
(*                                                                         *)
(* Every call of a public method is one step, whether it returns or        *)
(* raises; `ultimo` records which call it was and how it ended.  The       *)
(* behaviours followed are those of at most MaxPassos steps.               *)
(***************************************************************************)
EXTENDS Integers, Sequences, FiniteSets, TLC

\* ------------------------------------------------------------------ bounds
MaxPassos == 5         \* behaviours of at most this many steps are followed

\* ------------------------------------------------------- program constants
DiaImport == 0         \* value of every `date.today()` default argument
DiasPadrao == 7        \* emprestar(..., dias: int = 7)
ExtrasPadrao == 7      \* renovar(..., dias_extras = timedelta(days=7))

\* ---------------------------------------------------------------- entities
\* Three Obra instances; o1 and o2 are two instances of the same catalog
\* line (same titulo and autor), o3 is another one.
Obras == {"o1", "o2", "o3"}
Usuarios == {"u1", "u2"}

titulo(o) == IF o = "o3" THEN "B" ELSE "A"
autor(o) == IF o = "o3" THEN "y" ELSE "x"

\* the quantidade each Obra is constructed with: one copy, two copies
QuantidadeInicial(o) == IF o = "o1" THEN 1 ELSE 2

\* Obra.__str__ : f'"{self.titulo}", {self.autor}'
ObraStr(o) == <<"\"", titulo(o), "\", ", autor(o)>>

\* None, and a date wrapped so that it compares with None
None == <<>>
Data(d) == <<d>>

\* arguments
Dias == {0, DiasPadrao}
\* dias_extras is declared a timedelta; nothing stops a caller passing an int
Extras == [tipo : {"timedelta", "int"}, dias : {0, ExtrasPadrao}]

VARIABLES
    estoque,             \* Acervo.estoque : titulo -> quantidade (a dict)
    emprestimos_ativos,  \* Acervo.emprestimos_ativos : list of Emprestimo
    quantidade,          \* Obra.quantidade of every Obra
    historico,           \* Emprestimo.historico : every Emprestimo created
    emprestimos,         \* Usuario.emprestimos of every Usuario
    debitos,             \* Usuario.debitos of every Usuario (a dict)
    hoje,                \* the current day, date.today()
    ultimo,              \* the last call made and how it ended
    passos               \* number of steps taken so far

vars == <<estoque, emprestimos_ativos, quantidade, historico,
          emprestimos, debitos, hoje, ultimo, passos>>

\* ------------------------------------------------------------ dict helpers
DictVazio == [k \in {} |-> 0]
DictSet(d, k, v) == [x \in (DOMAIN d) \cup {k} |-> IF x = k THEN v ELSE d[x]]
DictPop(d, k) == [x \in (DOMAIN d) \ {k} |-> d[x]]

Abs(n) == IF n < 0 THEN -n ELSE n

\* list.remove(x): drops the first element equal to x.  An Emprestimo is
\* named by its position in Emprestimo.historico; BaseEntity.__eq__ holds of
\* two entities only when they are the same object, so == is equality of
\* these names.
RECURSIVE ListRemove(_, _)
ListRemove(s, x) ==
    IF s = <<>> THEN <<>>
    ELSE IF Head(s) = x THEN Tail(s)
    ELSE <<Head(s)>> \o ListRemove(Tail(s), x)

InList(s, x) == \E i \in 1..Len(s) : s[i] = x

\* ------------------------------------------------------------------- Obra
disponivel_sempre(o, est) == TRUE

\* Obra.disponivel
disponivel(o, est) == titulo(o) \in DOMAIN est

\* __iadd__ that registers an absent title with one copy
iadd_um(est, quant, o) ==
    LET q == IF titulo(o) \in DOMAIN est THEN quant[o] + 1 ELSE 1
    IN  [estoque |-> DictSet(est, titulo(o), q),
         quantidade |-> [quant EXCEPT ![o] = q],
         erro |-> ""]

\* ----------------------------------------------------------------- Acervo
\* Acervo.__iadd__ : the new estoque and the new Obra quantities
iadd(est, quant, o) ==
    LET q == IF titulo(o) \in DOMAIN est THEN quant[o] + 1 ELSE quant[o]
    IN  [estoque |-> DictSet(est, titulo(o), q),
         quantidade |-> [quant EXCEPT ![o] = q],
         erro |-> ""]

\* __isub__ that leaves a title with no copies on the estoque
isub_sem_pop(est, quant, o) ==
    LET presente == titulo(o) \in DOMAIN est
        q == IF presente THEN quant[o] - 1 ELSE quant[o]
    IN  [estoque |-> IF presente THEN DictSet(est, titulo(o), q) ELSE est,
         quantidade |-> [quant EXCEPT ![o] = q],
         erro |-> ""]

\* Acervo.__isub__ : the new estoque and quantities; dict.pop of a key that
\* is not there raises KeyError
isub(est, quant, o) ==
    LET presente == titulo(o) \in DOMAIN est
        q == IF presente THEN quant[o] - 1 ELSE quant[o]
        est1 == IF presente THEN DictSet(est, titulo(o), q) ELSE est
    IN  IF q <= 0
        THEN IF titulo(o) \in DOMAIN est1
             THEN [estoque |-> DictPop(est1, titulo(o)),
                   quantidade |-> [quant EXCEPT ![o] = q],
                   erro |-> ""]
             ELSE [estoque |-> est1,
                   quantidade |-> [quant EXCEPT ![o] = q],
                   erro |-> "KeyError"]
        ELSE [estoque |-> est1,
              quantidade |-> [quant EXCEPT ![o] = q],
              erro |-> ""]

\* ------------------------------------------------------------- Emprestimo
\* Emprestimo.__init__ with data_retirada left at its default
NovoEmprestimo(o, u, prev) ==
    [obra |-> o, usuario |-> u, data_prev_devol |-> prev,
     data_retirada |-> DiaImport, data_dev_real |-> None]

marcar_devolucao_esquece(emp, data_dev_real) == emp

\* Emprestimo.marcar_devolucao
marcar_devolucao(emp, data_dev_real) ==
    [emp EXCEPT !.data_dev_real = Data(data_dev_real)]

\* Emprestimo.dias_atraso
dias_atraso(emp, data_ref) == Abs(emp.data_prev_devol - data_ref)

\* Acervo.valor_multa : float(emprestimo.dias_atraso())
valor_multa(emp) == dias_atraso(emp, DiaImport)

\* f'R$ {valor}'.replace('.', ',') of a float holding a whole number
Reais(v) == <<"R$ ", v, ",0">>

\* the key of a fine: the text names str(obra) and today as dd/mm/yy
Motivo(emp, dia) == [obra |-> ObraStr(emp.obra), dia |-> dia]

multar_todos(deb, emp, dia) ==
    IF dias_atraso(emp, DiaImport) # 0
    THEN [u \in DOMAIN deb |->
              DictSet(deb[u], Motivo(emp, dia), Reais(valor_multa(emp)))]
    ELSE deb

\* Acervo.multar_se_atrasado : the new debitos of every Usuario
multar_se_atrasado(deb, emp, dia) ==
    IF dias_atraso(emp, DiaImport) # 0
    THEN [deb EXCEPT ![emp.usuario] =
              DictSet(deb[emp.usuario], Motivo(emp, dia), Reais(valor_multa(emp)))]
    ELSE deb

\* ------------------------------------------------------------------ calls
\* the last call: its name, the Emprestimo it was given or returned (0 when
\* none) and the exception it raised ("" when it returned)
Chamada(op, emp, erro) == [op |-> op, emp |-> emp, erro |-> erro]

\* Acervo.__init__, Usuario.__init__, Obra.__init__ with quantidade >= 1
Init ==
    /\ estoque = DictVazio
    /\ emprestimos_ativos = <<>>
    /\ quantidade = [o \in Obras |-> QuantidadeInicial(o)]
    /\ historico = <<>>
    /\ emprestimos = [u \in Usuarios |-> <<>>]
    /\ debitos = [u \in Usuarios |-> DictVazio]
    /\ hoje = DiaImport
    /\ ultimo = Chamada("init", 0, "")
    /\ passos = 0

\* every step counts towards the length of the behaviour
Passo ==
    /\ passos < MaxPassos
    /\ passos' = passos + 1

\* the calendar moves on between calls
AvancarDia ==
    /\ Passo
    /\ hoje' = hoje + 1
    /\ ultimo' = Chamada("dia", 0, "")
    /\ UNCHANGED <<estoque, emprestimos_ativos, quantidade,
                   historico, emprestimos, debitos>>

\* int > dias_extras : defined for an int, a TypeError for a timedelta
Comparavel(extras) == extras.tipo = "int"
\* date += dias_extras : defined for a timedelta, a TypeError for an int
Somavel(extras) == extras.tipo = "timedelta"

\* Acervo.adicionar
Adicionar(o) ==
    LET r == iadd(estoque, quantidade, o)
    IN  /\ Passo
        /\ estoque' = r.estoque
        /\ quantidade' = r.quantidade
        /\ ultimo' = Chamada("adicionar", 0, "")
        /\ UNCHANGED <<emprestimos_ativos, historico, emprestimos,
                       debitos, hoje>>

\* Acervo.remover
Remover(o) ==
    LET r == isub(estoque, quantidade, o)
    IN  /\ Passo
        /\ estoque' = r.estoque
        /\ quantidade' = r.quantidade
        /\ ultimo' = Chamada("remover", 0, r.erro)
        /\ UNCHANGED <<emprestimos_ativos, historico, emprestimos,
                       debitos, hoje>>

\* Acervo.emprestar
Emprestar(o, u, dias) ==
    IF disponivel(o, estoque)
    THEN LET emp == NovoEmprestimo(o, u, hoje + dias)
             id == Len(historico) + 1
             r == isub(estoque, quantidade, o)
         IN  /\ Passo
             /\ historico' = Append(historico, emp)
             /\ estoque' = r.estoque
             /\ quantidade' = r.quantidade
             /\ IF r.erro = ""
                THEN /\ emprestimos_ativos' = Append(emprestimos_ativos, id)
                     /\ emprestimos' =
                            [emprestimos EXCEPT ![u] = Append(@, id)]
                     /\ ultimo' = Chamada("emprestar", id, "")
                ELSE /\ UNCHANGED <<emprestimos_ativos, emprestimos>>
                     /\ ultimo' = Chamada("emprestar", 0, r.erro)
             /\ UNCHANGED <<debitos, hoje>>
    ELSE /\ Passo
         /\ ultimo' = Chamada("emprestar", 0, "ValueError")
         /\ UNCHANGED <<estoque, emprestimos_ativos, quantidade,
                        historico, emprestimos, debitos, hoje>>

\* devolver that also takes the Emprestimo off the list of its Usuario
DevolverTiraDoUsuario(e, data_dev) ==
    LET emp == historico[e]
        r == iadd(estoque, quantidade, emp.obra)
    IN  /\ Passo
        /\ debitos' = multar_se_atrasado(debitos, emp, hoje)
        /\ estoque' = r.estoque
        /\ quantidade' = r.quantidade
        /\ historico' = [historico EXCEPT ![e] = marcar_devolucao(emp, data_dev)]
        /\ emprestimos' =
               [emprestimos EXCEPT ![emp.usuario] = ListRemove(@, e)]
        /\ IF InList(emprestimos_ativos, e)
           THEN /\ emprestimos_ativos' = ListRemove(emprestimos_ativos, e)
                /\ ultimo' = Chamada("devolver", e, "")
           ELSE /\ emprestimos_ativos' = emprestimos_ativos
                /\ ultimo' = Chamada("devolver", e, "ValueError")
        /\ UNCHANGED hoje

\* devolver that assesses the fine as of the return date it is given
DevolverMultaPelaData(e, data_dev) ==
    LET emp == historico[e]
        r == iadd(estoque, quantidade, emp.obra)
    IN  /\ Passo
        /\ debitos' = multar_se_atrasado(debitos, emp, data_dev)
        /\ estoque' = r.estoque
        /\ quantidade' = r.quantidade
        /\ historico' = [historico EXCEPT ![e] = marcar_devolucao(emp, data_dev)]
        /\ IF InList(emprestimos_ativos, e)
           THEN /\ emprestimos_ativos' = ListRemove(emprestimos_ativos, e)
                /\ ultimo' = Chamada("devolver", e, "")
           ELSE /\ emprestimos_ativos' = emprestimos_ativos
                /\ ultimo' = Chamada("devolver", e, "ValueError")
        /\ UNCHANGED <<emprestimos, hoje>>

\* Acervo.devolver ; list.remove raises ValueError when the element is not there
Devolver(e, data_dev) ==
    LET emp == historico[e]
        r == iadd(estoque, quantidade, emp.obra)
    IN  /\ Passo
        /\ debitos' = multar_se_atrasado(debitos, emp, hoje)
        /\ estoque' = r.estoque
        /\ quantidade' = r.quantidade
        /\ historico' = [historico EXCEPT ![e] = marcar_devolucao(emp, data_dev)]
        /\ IF InList(emprestimos_ativos, e)
           THEN /\ emprestimos_ativos' = ListRemove(emprestimos_ativos, e)
                /\ ultimo' = Chamada("devolver", e, "")
           ELSE /\ emprestimos_ativos' = emprestimos_ativos
                /\ ultimo' = Chamada("devolver", e, "ValueError")
        /\ UNCHANGED <<emprestimos, hoje>>

\* Acervo.renovar
Renovar(e, extras) ==
    LET emp == historico[e]
    IN  /\ Passo
        /\ UNCHANGED <<estoque, emprestimos_ativos, quantidade,
                       emprestimos, hoje>>
        /\ IF ~Comparavel(extras)
           THEN /\ ultimo' = Chamada("renovar", e, "TypeError")
                /\ UNCHANGED <<historico, debitos>>
           ELSE IF dias_atraso(emp, DiaImport) > extras.dias
           THEN /\ ultimo' = Chamada("renovar", e, "")
                /\ UNCHANGED <<historico, debitos>>
           ELSE /\ debitos' = multar_se_atrasado(debitos, emp, hoje)
                /\ IF Somavel(extras)
                   THEN /\ historico' = [historico EXCEPT ![e].data_prev_devol =
                                             @ + extras.dias]
                        /\ ultimo' = Chamada("renovar", e, "")
                   ELSE /\ historico' = historico
                        /\ ultimo' = Chamada("renovar", e, "TypeError")

\* Acervo.multar_se_atrasado, called on its own
MultarSeAtrasado(e) ==
    LET emp == historico[e]
    IN  /\ Passo
        /\ debitos' = multar_se_atrasado(debitos, emp, hoje)
        /\ ultimo' = Chamada("multar_se_atrasado", e, "")
        /\ UNCHANGED <<estoque, emprestimos_ativos, quantidade,
                       historico, emprestimos, hoje>>

Next ==
    \/ AvancarDia
    \/ \E o \in Obras : Adicionar(o)
    \/ \E o \in Obras : Remover(o)
    \/ \E o \in Obras, u \in Usuarios, dias \in Dias : Emprestar(o, u, dias)
    \/ \E e \in 1..Len(historico), data_dev \in {DiaImport, hoje} : Devolver(e, data_dev)
    \/ \E e \in 1..Len(historico), extras \in Extras : Renovar(e, extras)
    \/ \E e \in 1..Len(historico) : MultarSeAtrasado(e)

Spec == Init /\ [][Next]_vars

\* ---------------------------------------------- stock operations on their own
\* only adicionar, remover, emprestar and devolver are called
NextEstoque ==
    \/ AvancarDia
    \/ \E o \in Obras : Adicionar(o)
    \/ \E o \in Obras : Remover(o)
    \/ \E o \in Obras, u \in Usuarios, dias \in Dias : Emprestar(o, u, dias)
    \/ \E e \in 1..Len(historico), data_dev \in {DiaImport, hoje} : Devolver(e, data_dev)

SpecEstoque == Init /\ [][NextEstoque]_vars

\* ------------------------------------------------- checkout / return pairs
\* The Obras registered once each, as roteiro_testes does; they have
\* different titles.
Registradas == {"o1", "o3"}

\* the state after acervo.adicionar(o1); acervo.adicionar(o3) on a new Acervo
InitPares ==
    LET q0 == [o \in Obras |-> QuantidadeInicial(o)]
        r1 == iadd(DictVazio, q0, "o1")
        r2 == iadd(r1.estoque, r1.quantidade, "o3")
    IN  /\ estoque = r2.estoque
        /\ quantidade = r2.quantidade
        /\ emprestimos_ativos = <<>>
        /\ historico = <<>>
        /\ emprestimos = [u \in Usuarios |-> <<>>]
        /\ debitos = [u \in Usuarios |-> DictVazio]
        /\ hoje = DiaImport
        /\ ultimo = Chamada("adicionar", 0, "")
        /\ passos = 0

\* a successful emprestar of a registered Obra
EmprestarRegistrada(o, u, dias) ==
    /\ o \in Registradas
    /\ disponivel(o, estoque)
    /\ Emprestar(o, u, dias)

\* devolver of an Emprestimo that has not been returned yet
DevolverAberto(e, data_dev) ==
    /\ historico[e].data_dev_real = None
    /\ Devolver(e, data_dev)

NextPares ==
    \/ AvancarDia
    \/ \E o \in Obras, u \in Usuarios, dias \in Dias : EmprestarRegistrada(o, u, dias)
    \/ \E e \in 1..Len(historico), data_dev \in {DiaImport, hoje} : DevolverAberto(e, data_dev)

SpecPares == InitPares /\ [][NextPares]_vars

\* ------------------------------------------------------------------ claims
Aberto(e) == historico[e].data_dev_real = None

\* the stock count of a title, a title that is not a key counting as 0
Contagem(est, t) == IF t \in DOMAIN est THEN est[t] ELSE 0

\* days by which today is past the due date of an Emprestimo, 0 when on time
AtrasoReal(emp) ==
    IF hoje > emp.data_prev_devol THEN hoje - emp.data_prev_devol ELSE 0

\* C1: after any sequence of adicionar, remover, emprestar and devolver on an
\* Acervo that starts empty, with Obras built with quantidade >= 1, no title
\* of the estoque has a recorded quantity <= 0.
C1_EstoqueSoPositivo == \A t \in DOMAIN estoque : estoque[t] > 0

\* C2: under checkout / return pairs on a registered Obra, once every
\* Emprestimo of the Obra has been returned the estoque of its title is the
\* quantity the Obra was registered with.
C2_ConservacaoEstoque ==
    \A o \in Registradas :
        (\A i \in 1..Len(historico) : historico[i].obra = o => ~Aberto(i))
        => /\ titulo(o) \in DOMAIN estoque
           /\ estoque[titulo(o)] = QuantidadeInicial(o)

\* C3: emprestar of an Obra whose title is not a key of the estoque raises
\* ValueError and changes nothing: estoque, the quantities, the open loans,
\* every Usuario's emprestimos and debitos stay as they were and no
\* Emprestimo is created.
C3_EmprestarIndisponivel ==
    [][\A o \in Obras, u \in Usuarios, dias \in Dias :
          (Emprestar(o, u, dias) /\ titulo(o) \notin DOMAIN estoque)
          => /\ ultimo'.erro = "ValueError"
             /\ UNCHANGED <<estoque, quantidade, emprestimos_ativos,
                            emprestimos, debitos, historico>>]_vars

\* C3 witness: an emprestar has failed on an Acervo that holds a loan and a debt
C3_Visto ==
    /\ ultimo = Chamada("emprestar", 0, "ValueError")
    /\ Len(historico) > 0
    /\ \E u \in Usuarios : DOMAIN debitos[u] # {}

\* C4: a successful emprestar(obra, usuario, dias) lowers the estoque of
\* obra.titulo by exactly one, the key going when the count reaches 0, and
\* appends one new open Emprestimo of obra to usuario, the one it returns, to
\* emprestimos_ativos and to usuario.emprestimos; no other title, no other
\* Usuario's emprestimos and no debitos change.
C4_EmprestarEfeito ==
    [][\A o \in Obras, u \in Usuarios, dias \in Dias :
          (Emprestar(o, u, dias) /\ ultimo'.erro = "")
          => LET t == titulo(o)
                 id == ultimo'.emp
             IN  /\ IF estoque[t] - 1 = 0
                    THEN t \notin DOMAIN estoque'
                    ELSE /\ t \in DOMAIN estoque'
                         /\ estoque'[t] = estoque[t] - 1
                 /\ DOMAIN estoque' \ {t} = DOMAIN estoque \ {t}
                 /\ \A t2 \in DOMAIN estoque \ {t} : estoque'[t2] = estoque[t2]
                 /\ historico' = Append(historico, historico'[id])
                 /\ historico'[id].obra = o
                 /\ historico'[id].usuario = u
                 /\ historico'[id].data_dev_real = None
                 /\ emprestimos_ativos' = Append(emprestimos_ativos, id)
                 /\ emprestimos'[u] = Append(emprestimos[u], id)
                 /\ \A u2 \in Usuarios \ {u} : emprestimos'[u2] = emprestimos[u2]
                 /\ debitos' = debitos]_vars

\* C5: every Emprestimo ever created is in emprestimos_ativos exactly while
\* its data_dev_real is None, between any two calls, also after calls that
\* raised.
C5_AtivosSaoOsAbertos ==
    \A i \in 1..Len(historico) : InList(emprestimos_ativos, i) <=> Aberto(i)

\* C5 witness: a call has just raised while one Emprestimo is open and
\* another one has been returned
C5_Visto ==
    /\ ultimo.erro # ""
    /\ \E i, j \in 1..Len(historico) :
           /\ Aberto(i) /\ InList(emprestimos_ativos, i)
           /\ ~Aberto(j) /\ ~InList(emprestimos_ativos, j)

\* C6: devolver(emprestimo, data_dev) of an open Emprestimo sets its
\* data_dev_real to data_dev, takes it out of emprestimos_ativos and leaves
\* the estoque of its title exactly one higher, a missing title counting as 0.
C6_DevolverEfeito ==
    [][\A e \in 1..Len(historico), data_dev \in {DiaImport, hoje} :
          (Devolver(e, data_dev) /\ Aberto(e))
          => LET t == titulo(historico[e].obra)
             IN  /\ historico'[e].data_dev_real = Data(data_dev)
                 /\ ~InList(emprestimos_ativos', e)
                 /\ t \in DOMAIN estoque'
                 /\ estoque'[t] = Contagem(estoque, t) + 1]_vars

\* C7: devolver of an Emprestimo that was already returned raises and leaves
\* estoque, the quantities, emprestimos_ativos, the Emprestimo's
\* data_dev_real and the debitos as they were.
C7_DevolverFechado ==
    [][\A e \in 1..Len(historico), data_dev \in {DiaImport, hoje} :
          (Devolver(e, data_dev) /\ ~Aberto(e))
          => /\ ultimo'.erro # ""
             /\ UNCHANGED <<estoque, quantidade, emprestimos_ativos,
                            historico, debitos>>]_vars

\* C8: renovar(emprestimo, dias_extras) of an open Emprestimo that is late by
\* more than the extension returns without raising and changes nothing.
\* (Late by more than the extension both as dias_atraso() has it and by the
\* calendar.)
C8_RenovarRecusado ==
    [][\A e \in 1..Len(historico), extras \in Extras :
          (/\ Renovar(e, extras)
           /\ Aberto(e)
           /\ dias_atraso(historico[e], DiaImport) > extras.dias
           /\ AtrasoReal(historico[e]) > extras.dias)
          => /\ ultimo'.erro = ""
             /\ UNCHANGED <<estoque, quantidade, emprestimos_ativos,
                            historico, emprestimos, debitos, hoje>>]_vars

\* C9: renovar(emprestimo, dias_extras) of an open Emprestimo whose lateness
\* does not exceed the extension returns without raising and moves
\* data_prev_devol forward by the extension; when the Emprestimo is late by
\* n > 0 days a fine of n is in the debitos of its Usuario afterwards.
\* (Lateness within the extension both as dias_atraso() has it and by the
\* calendar.)
C9_RenovarEfeito ==
    [][\A e \in 1..Len(historico), extras \in Extras :
          (/\ Renovar(e, extras)
           /\ Aberto(e)
           /\ dias_atraso(historico[e], DiaImport) <= extras.dias
           /\ AtrasoReal(historico[e]) <= extras.dias)
          => LET emp == historico[e]
                 n == AtrasoReal(emp)
             IN  /\ ultimo'.erro = ""
                 /\ historico'[e].data_prev_devol =
                        emp.data_prev_devol + extras.dias
                 /\ n > 0 =>
                        \E k \in DOMAIN debitos'[emp.usuario] :
                            debitos'[emp.usuario][k] = Reais(n)]_vars

\* C10: devolver, renovar and multar_se_atrasado add a debt only when today
\* is strictly after the due date: for an Emprestimo that is on time the
\* debitos stay as they were.
C10_MultaSoSeAtrasado ==
    [][\A e \in 1..Len(historico) :
          (/\ \/ \E data_dev \in {DiaImport, hoje} : Devolver(e, data_dev)
              \/ \E extras \in Extras : Renovar(e, extras)
              \/ MultarSeAtrasado(e)
           /\ hoje <= historico[e].data_prev_devol)
          => debitos' = debitos]_vars

\* a call that runs multar_se_atrasado on Emprestimo e: devolver, the method
\* itself, or a renovar that gets past its comparison
AvaliaMulta(e) ==
    \/ \E data_dev \in {DiaImport, hoje} : Devolver(e, data_dev)
    \/ MultarSeAtrasado(e)
    \/ \E extras \in Extras :
          /\ Renovar(e, extras)
          /\ Comparavel(extras)
          /\ dias_atraso(historico[e], DiaImport) <= extras.dias

\* C11: each time a fine is assessed for an Emprestimo with non-zero lateness
\* the debitos of its Usuario gain exactly one entry and every entry already
\* there keeps its value, also when the same Emprestimo, or another one of
\* the same Obra, is fined again on the same day.
C11_MultaNovaEntrada ==
    [][\A e \in 1..Len(historico) :
          (AvaliaMulta(e) /\ dias_atraso(historico[e], DiaImport) # 0)
          => LET u == historico[e].usuario
             IN  /\ Cardinality(DOMAIN debitos'[u]) =
                        Cardinality(DOMAIN debitos[u]) + 1
                 /\ \A k \in DOMAIN debitos[u] :
                        /\ k \in DOMAIN debitos'[u]
                        /\ debitos'[u][k] = debitos[u][k]]_vars

\* C12: a call that assesses a fine for an Emprestimo leaves the debitos of
\* every Usuario other than the Emprestimo's own as they were, and adicionar,
\* remover and emprestar change no debitos at all.
C12_MultaSoDoUsuario ==
    [][/\ \A e \in 1..Len(historico) :
             (\/ \E data_dev \in {DiaImport, hoje} : Devolver(e, data_dev)
              \/ \E extras \in Extras : Renovar(e, extras)
              \/ MultarSeAtrasado(e))
             => \A u \in Usuarios \ {historico[e].usuario} :
                    debitos'[u] = debitos[u]
       /\ ultimo'.op \in {"adicionar", "remover", "emprestar"}
             => debitos' = debitos]_vars

\* C12 witness: a fine has just been posted to one Usuario while the other
\* Usuario holds an Emprestimo and debitos of their own
C12_Visto ==
    /\ ultimo.op \in {"devolver", "renovar", "multar_se_atrasado"}
    /\ ultimo.emp \in 1..Len(historico)
    /\ DOMAIN debitos[historico[ultimo.emp].usuario] # {}
    /\ \E i \in 1..Len(historico) :
           /\ historico[i].usuario # historico[ultimo.emp].usuario
           /\ DOMAIN debitos[historico[i].usuario] # {}

\* C13: for an Emprestimo whose due date was passed n >= 1 days ago the fine
\* amount is n, and of two overdue Emprestimos the one that is later by more
\* days has the larger fine.
C13_ValorMulta ==
    /\ \A e \in 1..Len(historico) :
           AtrasoReal(historico[e]) >= 1
           => valor_multa(historico[e]) = AtrasoReal(historico[e])
    /\ \A e, f \in 1..Len(historico) :
           (/\ AtrasoReal(historico[e]) >= 1
            /\ AtrasoReal(historico[e]) < AtrasoReal(historico[f]))
           => valor_multa(historico[e]) < valor_multa(historico[f])

\* C14: a call that assesses a fine on day T with no explicit reference date
\* uses the day difference between the due date and T, also when T is after
\* the day the program was started: devolver and multar_se_atrasado post that
\* difference when it is not 0 and post nothing when it is 0.
C14_AtrasoContraHoje ==
    [][\A e \in 1..Len(historico) :
          (\/ \E data_dev \in {DiaImport, hoje} : Devolver(e, data_dev)
           \/ MultarSeAtrasado(e))
          => LET emp == historico[e]
                 n == Abs(emp.data_prev_devol - hoje)
             IN  IF n # 0
                 THEN /\ Motivo(emp, hoje) \in DOMAIN debitos'[emp.usuario]
                      /\ debitos'[emp.usuario][Motivo(emp, hoje)] = Reais(n)
                 ELSE debitos' = debitos]_vars

\* C15: an Emprestimo created by emprestar(obra, usuario, dias) on day T has
\* data_retirada T and data_prev_devol T + dias.
C15_DatasDoEmprestimo ==
    [][\A o \in Obras, u \in Usuarios, dias \in Dias :
          (Emprestar(o, u, dias) /\ ultimo'.erro = "")
          => LET emp == historico'[ultimo'.emp]
             IN  /\ emp.data_retirada = hoje
                 /\ emp.data_prev_devol = hoje + dias
                 /\ emp.data_prev_devol - emp.data_retirada = dias]_vars

\* C16: what devolver(emprestimo, data_dev) posts depends on today and on
\* the due date only, never on data_dev: a fine, when there is one, is keyed
\* by today and worth the days between the due date and the reference day of
\* dias_atraso, and apart from the data_dev_real of the Emprestimo the
\* resulting state is the same for every data_dev.
C16_MultaIndependeDaData ==
    [][\A e \in 1..Len(historico), data_dev \in {DiaImport, hoje} :
          Devolver(e, data_dev)
          => LET emp == historico[e]
                 u == emp.usuario
                 n == Abs(emp.data_prev_devol - DiaImport)
                 r == iadd(estoque, quantidade, emp.obra)
             IN  /\ debitos' =
                        IF n = 0 THEN debitos
                        ELSE [debitos EXCEPT ![u] =
                                 DictSet(debitos[u], Motivo(emp, hoje), Reais(n))]
                 /\ [historico' EXCEPT ![e].data_dev_real = None]
                        = [historico EXCEPT ![e].data_dev_real = None]
                 /\ estoque' = r.estoque
                 /\ quantidade' = r.quantidade
                 /\ emprestimos_ativos' = ListRemove(emprestimos_ativos, e)
                 /\ emprestimos' = emprestimos
                 /\ ultimo'.erro = IF InList(emprestimos_ativos, e)
                                   THEN "" ELSE "ValueError"]_vars

\* C16 witness: a devolver with a data_dev other than today has posted a fine
C16_Visto ==
    /\ ultimo.op = "devolver"
    /\ ultimo.erro = ""
    /\ historico[ultimo.emp].data_dev_real # Data(hoje)
    /\ Motivo(historico[ultimo.emp], hoje)
           \in DOMAIN debitos[historico[ultimo.emp].usuario]

C18_RemoverMenosUm ==
    [][\A o \in Obras :
          Remover(o)
          => /\ ultimo'.erro = ""
             /\ IF titulo(o) \in DOMAIN estoque
                THEN /\ \A t \in DOMAIN estoque \ {titulo(o)} :
                            /\ t \in DOMAIN estoque'
                            /\ estoque'[t] = estoque[t]
                     /\ IF estoque[titulo(o)] - 1 <= 0
                        THEN titulo(o) \notin DOMAIN estoque'
                        ELSE /\ titulo(o) \in DOMAIN estoque'
                             /\ estoque'[titulo(o)] = estoque[titulo(o)] - 1
                ELSE UNCHANGED <<estoque, quantidade>>]_vars

\* C19: two distinct Obras with the same titulo are fungible: from the same
\* state, adicionar, remover or emprestar with one or with the other gives
\* the same estoque.
C19_MesmoTituloMesmoEstoque ==
    [][\A a \in Obras, b \in Obras :
          (a # b /\ titulo(a) = titulo(b))
          => /\ Adicionar(a) => estoque' = iadd(estoque, quantidade, b).estoque
             /\ Remover(a) => estoque' = isub(estoque, quantidade, b).estoque
             /\ \A u \in Usuarios, dias \in Dias :
                    Emprestar(a, u, dias)
                    => estoque' = IF disponivel(b, estoque)
                                  THEN isub(estoque, quantidade, b).estoque
                                  ELSE estoque]_vars

\* C20: the emprestimos list of a Usuario is append-only: every step leaves
\* the old list as a prefix of the new one, the list grows by exactly one on
\* a successful emprestar for that Usuario and is unchanged by every other
\* step (devolver and renovar included), and it holds every Emprestimo ever
\* made to the Usuario.
C20_EmprestimosSoCresce ==
    [][/\ \A u \in Usuarios :
             /\ Len(emprestimos'[u]) >= Len(emprestimos[u])
             /\ SubSeq(emprestimos'[u], 1, Len(emprestimos[u])) = emprestimos[u]
             /\ IF \E o \in Obras, dias \in Dias :
                       Emprestar(o, u, dias) /\ ultimo'.erro = ""
                THEN emprestimos'[u] = Append(emprestimos[u], Len(historico'))
                ELSE emprestimos'[u] = emprestimos[u]
       /\ \A i \in 1..Len(historico') :
             InList(emprestimos'[historico'[i].usuario], i)]_vars

\* C20 witness: after a devolver a Usuario still has two Emprestimos on the
\* list, the first of them returned
C20_Visto ==
    /\ ultimo.op = "devolver"
    /\ \E u \in Usuarios :
           /\ Len(emprestimos[u]) = 2
           /\ ~Aberto(emprestimos[u][1])

\* the Emprestimos of a title that have not been returned
AbertosDe(t) ==
    {i \in 1..Len(historico) : titulo(historico[i].obra) = t /\ Aberto(i)}

\* C21: for an Obra constructed with N >= 1 copies and registered by one
\* adicionar, under any sequence of emprestar and of devolver of open
\* Emprestimos, the number of open Emprestimos of its title never exceeds N.
C21_SemExcessoDeEmprestimos ==
    \A o \in Registradas :
        Cardinality(AbertosDe(titulo(o))) <= QuantidadeInicial(o)

\* C21 witness: an emprestar after a return has brought a title back to N
\* open Emprestimos
C21_Visto ==
    /\ ultimo.op = "emprestar"
    /\ ultimo.erro = ""
    /\ \E o \in Registradas :
           /\ Cardinality(AbertosDe(titulo(o))) = QuantidadeInicial(o)
           /\ \E i \in 1..Len(historico) :
                  historico[i].obra = o /\ ~Aberto(i)

====
